---- MODULE Spec2Model ----
(***************************************************************************)
(* Model of the Bus Pirate host driver (package bp): the session's mode    *)
(* state machine (bp.go, modes.go) and the I2C command set built on it     *)
(* (i2c.go).  The driver is synchronous and single-threaded: one call is   *)
(* in progress at a time.  A call starts with its Call action (arguments,  *)
(* precondition checks) and continues with one action per exchange with    *)
(* the transport; pc names the exchange the call in progress makes next    *)
(* and is "idle" between calls.  The answers the transport gives to the    *)
(* Write/Read/SetReadParams calls are the actions' inputs (wfail, hfail,   *)
(* pfail, spfail: the Write or SetReadParams returns an error).  The       *)
(* session (mode, modeversion) is kept next to a record of the current or  *)
(* last call: operation, arguments, session before the call, returned      *)
(* error, returned value and the transport calls made, in order.           *)
(***************************************************************************)
EXTENDS Integers, Sequences, FiniteSets, TLC

VARIABLES
    mode,          \* BusPirate.mode
    modeversion,   \* BusPirate.modeversion
    handle,        \* TRUE once EnterI2CMode has returned a handle bound to bp
    pc,            \* "idle", or the exchange the call in progress makes next
    op,            \* name of the current or last call ("none" initially)
    args,          \* its arguments
    pre,           \* [mode, version] of the session when it started
    i,             \* Open's loop counter
    err,           \* error it returned ([kind, cause])
    val,           \* values it returned besides the error (and local b)
    io,            \* transport calls it made, in order
    leftI2C        \* history: the probe was taken out of I2C mode by a
                   \* successful EnterBitbangMode or Close (whose 0x00
                   \* the transport accepted) and has not been put back
                   \* by a successful EnterI2CMode since

vars ==
    <<mode, modeversion, handle, pc, op, args, pre, i, err, val, io, leftI2C>>

-----------------------------------------------------------------------------
(* modes.go: the mode enumeration *)
MODE_CLOSED == 0
MODE_UNKNOWN == 1
MODE_BITBANG == 2
MODE_SPI == 3
MODE_I2C == 4
MODE_UART == 5
MODE_1WIRE == 6
MODE_RAW == 7

(* bp.go: number of probe attempts of Open, and the drain buffer's size *)
MaxTries == 20
DrainSize == 2048

-----------------------------------------------------------------------------
(* Errors.  kind names the error value or message; cause names the kind of *)
(* the error it wraps ("none" when it wraps nothing).  "panic" is not a    *)
(* returned error: it marks a call that ended in a run-time panic.         *)
Err(kind) == [kind |-> kind, cause |-> "none"]
Wrap(kind, e) == [kind |-> kind, cause |-> e.kind]
NilErr == Err("nil")
Panic == Err("panic")
IsNil(e) == e.kind = "nil"
Panicked(e) == e.kind = "panic"
Failed(e) == e.kind \notin {"nil", "panic"}

(* bp.go isTimeout: transport errors are "timeout" or "io"; nil is neither *)
isTimeout(e) == e = "timeout"

(* ASCII *)
BBIO == <<66, 66, 73, 79>>
I2C == <<73, 50, 67>>
Ch1 == 49
HasPrefix(s, p) == Len(s) >= Len(p) /\ SubSeq(s, 1, Len(p)) = p

-----------------------------------------------------------------------------
(* Transport calls as recorded in io.                                      *)
(*   W: Conn.Write(data); err "nil" or "io"                                *)
(*   R: Conn.Read / io.ReadFull into a buffer of want bytes; n bytes       *)
(*      arrived, data holds them when their value matters                  *)
(*   P: Conn.SetReadParams                                                 *)
EvW(data, ok) ==
    [k |-> "W", data |-> data, want |-> 0, n |-> Len(data),
     err |-> IF ok THEN "nil" ELSE "io"]
EvR(want, r) ==
    [k |-> "R", data |-> r.data, want |-> want, n |-> r.n, err |-> r.err]
EvP(ok) ==
    [k |-> "P", data |-> <<>>, want |-> 0, n |-> 0,
     err |-> IF ok THEN "nil" ELSE "io"]

Writes(log) == SelectSeq(log, LAMBDA e : e.k = "W")

(* Answers of io.ReadFull(c, buf[0:want]) for a fixed-size response:       *)
(* the full response, a timeout, or another I/O error.                     *)
Full(data) == [err |-> "nil", n |-> Len(data), data |-> data]
TimedOut == [err |-> "timeout", n |-> 0, data |-> <<>>]
IOFailed == [err |-> "io", n |-> 0, data |-> <<>>]

Resp5 ==
    { Full(BBIO \o <<Ch1>>), Full(BBIO \o <<50>>),
      Full(<<66, 66, 73, 48, Ch1>>), Full(I2C \o <<Ch1, 1>>),
      TimedOut, IOFailed }
Resp4 ==
    { Full(I2C \o <<Ch1>>), Full(I2C \o <<50>>),
      Full(<<73, 50, 66, Ch1>>), Full(BBIO),
      TimedOut, IOFailed }

(* Answers of the drain read io.ReadFull(c, rbuf) of Open: a timeout after *)
(* n stray bytes, the buffer filled (no error), or another I/O error.      *)
Drains ==
    { [err |-> "timeout", n |-> 0, data |-> <<>>],
      [err |-> "timeout", n |-> 3, data |-> <<>>],
      [err |-> "nil", n |-> DrainSize, data |-> <<>>],
      [err |-> "io", n |-> 0, data |-> <<>>] }

-----------------------------------------------------------------------------
(* i2c.go: command codes, answer code and frame limits *)
bpcmd_ENTER_I2C_MODE == 2
bpans_OK == 1
bpcmd_I2C_START == 2
bpcmd_I2C_STOP == 3
bpcmd_I2C_READ == 4
bpcmd_I2C_ACK == 6
bpcmd_I2C_NACK == 7
bpcmd_I2C_WnR == 8
bpcmd_I2C_BULK_WRITE == 16
i2c_RnW_MAXREAD == 4096
i2c_RnW_MAXWRITE == 4096
(* bp.go Close: the command that leaves binary mode *)
bpcmd_EXIT == 15

(* Answers of Conn.Read(sl) with len(sl) = 1: one byte, a timeout, another *)
(* I/O error, no byte and no error, or one byte together with an error.    *)
RespBytes == {0, 1, 255}
Read1 ==
    { Full(<<b>>) : b \in RespBytes }
    \cup { TimedOut, IOFailed,
           [err |-> "nil", n |-> 0, data |-> <<>>],
           [err |-> "io", n |-> 1, data |-> <<1>>] }

(* Arguments and results of a call *)
NoArgs ==
    [b |-> 0, ack |-> FALSE, addrlen |-> 0, addr |-> 0, reg |-> 0,
     w |-> <<>>, rlen |-> 0]
NoVal == [b |-> 0, nw |-> 0, nr |-> 0]
Ret(s, e, v, log) == [s |-> s, err |-> e, val |-> v, io |-> log]

S == [mode |-> mode, version |-> modeversion]

-----------------------------------------------------------------------------
(* modes.go clearMode *)
clearMode_KeepMode(s) == [mode |-> s.mode, version |-> 0]
clearMode_KeepVersion(s) == [mode |-> MODE_UNKNOWN, version |-> s.version]
clearMode(s) == [mode |-> MODE_UNKNOWN, version |-> 0]

(* bp.go writeByte: the error of Conn.Write is built and dropped *)
writeByte(b, ok) == [err |-> NilErr, io |-> <<EvW(<<b>>, ok)>>]

(* bp.go readByte: err.Error() on a nil err panics *)
readByte(rd) ==
    IF rd.n # 1 \/ rd.err # "nil"
    THEN [val |-> 0, io |-> <<EvR(1, rd)>>,
          err |-> IF rd.err = "nil" THEN Panic ELSE Err("readByte")]
    ELSE [val |-> rd.data[1], io |-> <<EvR(1, rd)>>, err |-> NilErr]

(* bp.go exchangeByte *)
exchangeByte(in, ok, rd) ==
    LET w == writeByte(in, ok)
        r == readByte(rd)
    IN  IF ~IsNil(w.err) THEN [val |-> 0, err |-> w.err, io |-> w.io]
        ELSE [val |-> r.val, err |-> r.err, io |-> w.io \o r.io]

(* bp.go exchangeByteAndExpect *)
exchangeByteAndExpect_NoCompare(in, exp, ok, rd) ==
    LET x == exchangeByte(in, ok, rd)
    IN  IF ~IsNil(x.err) THEN [err |-> x.err, io |-> x.io]
        ELSE [err |-> NilErr, io |-> x.io]
exchangeByteAndExpect_Always02(in, exp, ok, rd) ==
    LET x == exchangeByte(2, ok, rd)
    IN  IF ~IsNil(x.err) THEN [err |-> x.err, io |-> x.io]
        ELSE IF x.val # exp THEN [err |-> Err("unexpected"), io |-> x.io]
        ELSE [err |-> NilErr, io |-> x.io]
exchangeByteAndExpect(in, exp, ok, rd) ==
    LET x == exchangeByte(in, ok, rd)
    IN  IF ~IsNil(x.err) THEN [err |-> x.err, io |-> x.io]
        ELSE IF x.val # exp THEN [err |-> Err("unexpected"), io |-> x.io]
        ELSE [err |-> NilErr, io |-> x.io]

(* bp.go EnterBitbangMode; ok and r answer its Write and its io.ReadFull *)
EnterBitbangMode_FromUnknown(s, ok, r) ==
    LET w == writeByte(0, ok)
        log == w.io \o <<EvR(5, r)>>
    IN  IF ~IsNil(w.err) THEN Ret(clearMode(s), w.err, NoVal, w.io)
        ELSE IF r.err # "nil"
            THEN Ret(clearMode(s), Wrap("readResponse", Err(r.err)), NoVal, log)
        ELSE IF ~HasPrefix(r.data, BBIO)
            THEN Ret(clearMode(s), Err("badPrefix"), NoVal, log)
        ELSE IF r.data[5] # Ch1
            THEN Ret(clearMode(s), Err("badVersion"), NoVal, log)
        ELSE Ret(s, NilErr, NoVal, log)
EnterBitbangMode(s, ok, r) ==
    LET w == writeByte(0, ok)
        log == w.io \o <<EvR(5, r)>>
    IN  IF s.mode = MODE_UNKNOWN THEN Ret(s, Err("unknownMode"), NoVal, <<>>)
        ELSE IF ~IsNil(w.err) THEN Ret(clearMode(s), w.err, NoVal, w.io)
        ELSE IF r.err # "nil"
            THEN Ret(clearMode(s), Wrap("readResponse", Err(r.err)), NoVal, log)
        ELSE IF ~HasPrefix(r.data, BBIO)
            THEN Ret(clearMode(s), Err("badPrefix"), NoVal, log)
        ELSE IF r.data[5] # Ch1
            THEN Ret(clearMode(s), Err("badVersion"), NoVal, log)
        ELSE Ret(s, NilErr, NoVal, log)

(* i2c.go EnterI2CMode; val.b = 1 stands for the handle bound to bp that   *)
(* a successful return carries (0: the zero handle)                        *)
EnterI2CMode_FromAnyMode(s, ok, r) ==
    LET w == writeByte(bpcmd_ENTER_I2C_MODE, ok)
        log == w.io \o <<EvR(4, r)>>
    IN  IF ~IsNil(w.err) THEN Ret(clearMode(s), w.err, NoVal, w.io)
        ELSE IF r.err # "nil"
            THEN Ret(clearMode(s), Wrap("readResponse", Err(r.err)), NoVal, log)
        ELSE IF ~HasPrefix(r.data, I2C)
            THEN Ret(clearMode(s), Err("badPrefix"), NoVal, log)
        ELSE IF r.data[4] # Ch1
            THEN Ret(clearMode(s), Err("badVersion"), NoVal, log)
        ELSE Ret([mode |-> MODE_I2C, version |-> 1], NilErr,
                 [NoVal EXCEPT !.b = 1], log)
EnterI2CMode(s, ok, r) ==
    LET w == writeByte(bpcmd_ENTER_I2C_MODE, ok)
        log == w.io \o <<EvR(4, r)>>
    IN  IF s.mode # MODE_BITBANG THEN Ret(s, Err("ModeError"), NoVal, <<>>)
        ELSE IF ~IsNil(w.err) THEN Ret(clearMode(s), w.err, NoVal, w.io)
        ELSE IF r.err # "nil"
            THEN Ret(clearMode(s), Wrap("readResponse", Err(r.err)), NoVal, log)
        ELSE IF ~HasPrefix(r.data, I2C)
            THEN Ret(clearMode(s), Err("badPrefix"), NoVal, log)
        ELSE IF r.data[4] # Ch1
            THEN Ret(clearMode(s), Err("badVersion"), NoVal, log)
        ELSE Ret([mode |-> MODE_I2C, version |-> 1], NilErr,
                 [NoVal EXCEPT !.b = 1], log)

(* i2c.go i2cerror{Op, Err}; a panic is not an error value and unwinds *)
i2cerror(e) == IF Panicked(e) THEN e ELSE Wrap("i2cerror", e)

(* i2c.go notI2CMode *)
notI2CMode == Err("ModeError")

(* i2c.go Start *)
Start_NoModeCheck(s, ok, rd) ==
    LET x == exchangeByteAndExpect(bpcmd_I2C_START, bpans_OK, ok, rd)
    IN  IF ~IsNil(x.err) THEN Ret(s, i2cerror(x.err), NoVal, x.io)
        ELSE Ret(s, NilErr, NoVal, x.io)
Start(s, ok, rd) ==
    LET x == exchangeByteAndExpect(bpcmd_I2C_START, bpans_OK, ok, rd)
    IN  IF s.mode # MODE_I2C THEN Ret(s, notI2CMode, NoVal, <<>>)
        ELSE IF ~IsNil(x.err) THEN Ret(s, i2cerror(x.err), NoVal, x.io)
        ELSE Ret(s, NilErr, NoVal, x.io)

(* i2c.go Stop *)
Stop_ClearsOnError(s, ok, rd) ==
    LET x == exchangeByteAndExpect(bpcmd_I2C_STOP, 1, ok, rd)
    IN  IF s.mode # MODE_I2C THEN Ret(s, notI2CMode, NoVal, <<>>)
        ELSE IF ~IsNil(x.err) THEN Ret(clearMode(s), i2cerror(x.err), NoVal, x.io)
        ELSE Ret(s, NilErr, NoVal, x.io)
Stop(s, ok, rd) ==
    LET x == exchangeByteAndExpect(bpcmd_I2C_STOP, 1, ok, rd)
    IN  IF s.mode # MODE_I2C THEN Ret(s, notI2CMode, NoVal, <<>>)
        ELSE IF ~IsNil(x.err) THEN Ret(s, i2cerror(x.err), NoVal, x.io)
        ELSE Ret(s, NilErr, NoVal, x.io)

-----------------------------------------------------------------------------
(* The state after construction: NewBusPirate leaves mode and modeversion  *)
(* at their zero values; no call has been made.                            *)
Init ==
    /\ mode = MODE_CLOSED
    /\ modeversion = 0
    /\ handle = FALSE
    /\ pc = "idle"
    /\ op = "none"
    /\ args = NoArgs
    /\ pre = [mode |-> MODE_CLOSED, version |-> 0]
    /\ i = 0
    /\ err = NilErr
    /\ val = NoVal
    /\ io = <<>>
    /\ leftI2C = FALSE

(* A call starts: no other call is in progress *)
Begin(o, a) ==
    /\ pc = "idle"
    /\ op' = o
    /\ args' = a
    /\ pre' = S
    /\ i' = 0

(* The call in progress goes on to exchange l *)
Goto(l, v, log) ==
    /\ pc' = l
    /\ err' = NilErr
    /\ val' = v
    /\ io' = log
    /\ UNCHANGED <<mode, modeversion, handle, leftI2C>>

(* The call returns: res is [s, err, val, io] *)
Return(res) ==
    /\ pc' = "idle"
    /\ mode' = res.s.mode
    /\ modeversion' = res.s.version
    /\ err' = res.err
    /\ val' = res.val
    /\ io' = res.io
    /\ leftI2C' =
        IF IsNil(res.err) /\ pre'.mode = MODE_I2C
           /\ op' \in {"EnterBitbangMode", "Close"}
           /\ res.io[1] = EvW(<<0>>, TRUE) THEN TRUE
        ELSE IF IsNil(res.err)
           /\ op' \in {"EnterI2CMode", "EnterNonStrictI2CMode"} THEN FALSE
        ELSE leftI2C

InCall == UNCHANGED <<op, args, pre>>

-----------------------------------------------------------------------------
(* bp.go Open, up to the loop: SetReadParams(0, 100e-3) *)
CallOpen ==
    /\ Begin("Open", NoArgs)
    /\ \E spfail \in BOOLEAN :
        IF spfail
        THEN Return(Ret(S, Err("io"), NoVal, <<EvP(FALSE)>>)) /\ UNCHANGED handle
        ELSE Goto("Open.loop", NoVal, <<EvP(TRUE)>>)

(* bp.go Open: the validation of a 5-byte response *)
OpenValidate_AnyVersion(data) ==
    IF ~HasPrefix(data, BBIO) THEN Err("badPrefix") ELSE NilErr
OpenValidate(data) ==
    IF ~HasPrefix(data, BBIO) THEN Err("badPrefix")
    ELSE IF data[5] # Ch1 THEN Err("badVersion")
    ELSE NilErr

(* bp.go Open: the end of an attempt whose response was validated;         *)
(* sp and d answer SetReadParams(0, 0.3) and the drain read.  The drain    *)
(* read's error is returned unless it is a timeout, also when it is nil.   *)
OpenDrain(s, sp, d, log) ==
    LET log3 == Append(log, EvP(sp))
        log4 == Append(log3, EvR(DrainSize, d))
    IN  IF ~sp THEN Ret(s, Err("io"), NoVal, log3)
        ELSE IF ~isTimeout(d.err) THEN Ret(s, Err(d.err), NoVal, log4)
        ELSE Ret([mode |-> MODE_BITBANG, version |-> 1], NilErr, NoVal, log4)

(* bp.go Open: the loop's condition *)
OpenLoopCond_OffByOne(j) == j <= MaxTries
OpenLoopCond(j) == j < MaxTries

(* bp.go Open: one iteration of the loop *)
OpenAttempt ==
    /\ pc = "Open.loop"
    /\ InCall
    /\ UNCHANGED handle
    /\ \E wfail \in BOOLEAN :
        LET log1 == Append(io, EvW(<<0>>, ~wfail))
        IN  IF wfail THEN Return(Ret(S, Err("io"), NoVal, log1)) /\ UNCHANGED i
            ELSE \E r \in Resp5 :
                LET log2 == Append(log1, EvR(5, r))
                IN  IF r.err # "nil" THEN
                        IF isTimeout(r.err) THEN
                            /\ i' = i + 1
                            /\ IF OpenLoopCond(i + 1)
                               THEN Goto("Open.loop", NoVal, log2)
                               ELSE Return(Ret(S, Err("exhausted"), NoVal, log2))
                        ELSE Return(Ret(S, Err(r.err), NoVal, log2)) /\ UNCHANGED i
                    ELSE IF ~IsNil(OpenValidate(r.data)) THEN
                        Return(Ret(S, OpenValidate(r.data), NoVal, log2)) /\ UNCHANGED i
                    ELSE \E spfail \in BOOLEAN, d \in Drains :
                        Return(OpenDrain(S, ~spfail, d, log2)) /\ UNCHANGED i

(* bp.go Close, up to the first exchange *)
CallClose_NoEnter ==
    /\ Begin("Close", NoArgs)
    /\ UNCHANGED handle
    /\ IF mode = MODE_UNKNOWN
       THEN Return(Ret(S, Err("unknownMode"), NoVal, <<>>))
       ELSE Goto("Close.exit", NoVal, <<>>)
CallClose ==
    /\ Begin("Close", NoArgs)
    /\ UNCHANGED handle
    /\ IF mode = MODE_UNKNOWN
       THEN Return(Ret(S, Err("unknownMode"), NoVal, <<>>))
       ELSE IF mode # MODE_BITBANG
       THEN Goto("Close.enter", NoVal, <<>>)
       ELSE Goto("Close.exit", NoVal, <<>>)

(* bp.go Close: the call of EnterBitbangMode *)
CloseEnter ==
    /\ pc = "Close.enter"
    /\ InCall
    /\ UNCHANGED <<handle, i>>
    /\ \E wfail \in BOOLEAN, r \in Resp5 :
        LET e == EnterBitbangMode(S, ~wfail, r)
        IN  IF ~IsNil(e.err)
            THEN Return(Ret(e.s, Wrap("closeEnter", e.err), NoVal, e.io))
            ELSE /\ pc' = "Close.exit"
                 /\ mode' = e.s.mode
                 /\ modeversion' = e.s.version
                 /\ err' = NilErr
                 /\ val' = NoVal
                 /\ io' = e.io
                 /\ UNCHANGED leftI2C

(* bp.go Close: the exit exchange *)
CloseExit ==
    /\ pc = "Close.exit"
    /\ InCall
    /\ UNCHANGED <<handle, i>>
    /\ \E wfail \in BOOLEAN, rd \in Read1 :
        LET x == exchangeByte(bpcmd_EXIT, ~wfail, rd)
        IN  IF ~IsNil(x.err) THEN Return(Ret(S, x.err, NoVal, io \o x.io))
            ELSE IF x.val # 1
            THEN Return(Ret(S, Err("closeResponse"), NoVal, io \o x.io))
            ELSE Return(Ret(S, NilErr, NoVal, io \o x.io))

(* bp.go EnterBitbangMode called by the user *)
CallEnterBitbangMode ==
    /\ Begin("EnterBitbangMode", NoArgs)
    /\ UNCHANGED handle
    /\ \E wfail \in BOOLEAN, r \in Resp5 : Return(EnterBitbangMode(S, ~wfail, r))

(* i2c.go EnterI2CMode called by the user *)
CallEnterI2CMode ==
    /\ Begin("EnterI2CMode", NoArgs)
    /\ \E wfail \in BOOLEAN, r \in Resp4 :
        LET res == EnterI2CMode(S, ~wfail, r)
        IN  /\ Return(res)
            /\ handle' = (handle \/ res.val.b = 1)

(* i2c.go EnterNonStrictI2CMode *)
CallEnterNonStrictI2CMode ==
    /\ Begin("EnterNonStrictI2CMode", NoArgs)
    /\ \E wfail \in BOOLEAN, r \in Resp4 :
        LET res == EnterI2CMode(S, ~wfail, r)
        IN  /\ Return(res)
            /\ handle' = (handle \/ res.val.b = 1)

(* i2c.go Start, on a handle bound to bp; only a successful EnterI2CMode   *)
(* returns one (bp is an unexported field)                                 *)
CallStart ==
    /\ handle
    /\ Begin("Start", NoArgs)
    /\ UNCHANGED handle
    /\ \E wfail \in BOOLEAN, rd \in Read1 : Return(Start(S, ~wfail, rd))

(* i2c.go Stop *)
CallStop ==
    /\ handle
    /\ Begin("Stop", NoArgs)
    /\ UNCHANGED handle
    /\ \E wfail \in BOOLEAN, rd \in Read1 : Return(Stop(S, ~wfail, rd))

(* Arguments the calls are tried with *)
MaxLen == 2
DataBytes == {0, 1, 171}
Payload(n) == [j \in 1..n |-> (j * 7) % 256]
WLens == (0..MaxLen) \cup {i2c_RnW_MAXWRITE - 2, i2c_RnW_MAXWRITE - 1, i2c_RnW_MAXWRITE}
RLens == (0..MaxLen) \cup {i2c_RnW_MAXREAD, i2c_RnW_MAXREAD + 1}
TransactArgs ==
    { [NoArgs EXCEPT !.addrlen = al, !.addr = 80, !.reg = 16,
                     !.w = Payload(wl), !.rlen = rl] :
        al \in {7, 10}, wl \in WLens, rl \in RLens }

(* i2c.go ReadByte, up to the first exchange *)
CallReadByte ==
    /\ handle
    /\ \E a \in BOOLEAN : Begin("ReadByte", [NoArgs EXCEPT !.ack = a])
    /\ UNCHANGED handle
    /\ IF mode # MODE_I2C
       THEN Return(Ret(S, notI2CMode, NoVal, <<>>))
       ELSE Goto("ReadByte.read", NoVal, <<>>)

(* i2c.go ReadByte: the exchange of the read command *)
ReadByteRead ==
    /\ pc = "ReadByte.read"
    /\ InCall
    /\ UNCHANGED <<handle, i>>
    /\ \E wfail \in BOOLEAN, rd \in Read1 :
        LET x == exchangeByte(bpcmd_I2C_READ, ~wfail, rd)
        IN  IF ~IsNil(x.err)
            THEN Return(Ret(S, i2cerror(x.err), NoVal, io \o x.io))
            ELSE Goto("ReadByte.ack", [NoVal EXCEPT !.b = x.val], io \o x.io)

(* i2c.go ReadByte: the exchange of the ACK or NACK command; b is val.b *)
ReadByteAck ==
    /\ pc = "ReadByte.ack"
    /\ InCall
    /\ UNCHANGED <<handle, i>>
    /\ \E wfail \in BOOLEAN, rd \in Read1 :
        LET x == IF args.ack
                 THEN exchangeByteAndExpect(bpcmd_I2C_ACK, bpans_OK, ~wfail, rd)
                 ELSE exchangeByteAndExpect(bpcmd_I2C_NACK, bpans_OK, ~wfail, rd)
        IN  IF Panicked(x.err) THEN Return(Ret(S, x.err, NoVal, io \o x.io))
            ELSE IF ~IsNil(x.err)
            THEN Return(Ret(S, i2cerror(x.err), val, io \o x.io))
            ELSE Return(Ret(S, NilErr, val, io \o x.io))

(* i2c.go WriteByte, up to the first exchange *)
CallWriteByte ==
    /\ handle
    /\ \E b \in DataBytes : Begin("WriteByte", [NoArgs EXCEPT !.b = b])
    /\ UNCHANGED handle
    /\ IF mode # MODE_I2C
       THEN Return(Ret(S, notI2CMode, NoVal, <<>>))
       ELSE Goto("WriteByte.cmd", NoVal, <<>>)

(* i2c.go WriteByte: the exchange of the bulk write command *)
WriteByteCmd ==
    /\ pc = "WriteByte.cmd"
    /\ InCall
    /\ UNCHANGED <<handle, i>>
    /\ \E wfail \in BOOLEAN, rd \in Read1 :
        LET x == exchangeByteAndExpect(bpcmd_I2C_BULK_WRITE, bpans_OK, ~wfail, rd)
        IN  IF ~IsNil(x.err)
            THEN Return(Ret(S, i2cerror(x.err), NoVal, io \o x.io))
            ELSE Goto("WriteByte.data", NoVal, io \o x.io)

(* i2c.go WriteByte: the exchange of the data byte *)
WriteByteData ==
    /\ pc = "WriteByte.data"
    /\ InCall
    /\ UNCHANGED <<handle, i>>
    /\ \E wfail \in BOOLEAN, rd \in Read1 :
        LET x == exchangeByte(args.b, ~wfail, rd)
        IN  IF ~IsNil(x.err)
            THEN Return(Ret(S, i2cerror(x.err), NoVal, io \o x.io))
            ELSE IF x.val # 0
            THEN Return(Ret(S, Err("NACKReceived"), NoVal, io \o x.io))
            ELSE Return(Ret(S, NilErr, NoVal, io \o x.io))

(* i2c.go writeThenRead: the 5-byte header of a frame *)
Header_LittleEndian(wlen, rlen) ==
    << bpcmd_I2C_WnR, wlen % 256, (wlen \div 256) % 256,
       rlen % 256, (rlen \div 256) % 256 >>
Header(wlen, rlen) ==
    << bpcmd_I2C_WnR, (wlen \div 256) % 256, wlen % 256,
       (rlen \div 256) % 256, rlen % 256 >>

(* Answers of io.ReadFull(c, r) for a read buffer of n bytes *)
BulkReads(n) ==
    IF n = 0 THEN { Full(<<>>) }
    ELSE { [err |-> "nil", n |-> n, data |-> <<>>],
           [err |-> "timeout", n |-> n - 1, data |-> <<>>],
           IOFailed }

(* i2c.go writeThenRead(w, r) with len(r) = rlen; hw, pw, st, rd answer    *)
(* the Write of the header, the Write of w, the Read of the status byte    *)
(* and the io.ReadFull into r.  A failed Write of the header returns nil.  *)
writeThenRead_NoReadBound(w, rlen, hw, pw, st, rd) ==
    LET log1 == <<EvW(Header(Len(w), rlen), hw)>>
        log2 == Append(log1, EvW(w, pw))
        b == readByte(st)
        log3 == log2 \o b.io
        log4 == Append(log3, EvR(rlen, rd))
    IN  IF Len(w) > i2c_RnW_MAXWRITE THEN [err |-> Err("bounds"), io |-> <<>>]
        ELSE IF ~hw THEN [err |-> NilErr, io |-> log1]
        ELSE IF ~pw THEN [err |-> Err("io"), io |-> log2]
        ELSE IF ~IsNil(b.err) THEN [err |-> b.err, io |-> log3]
        ELSE IF b.val # bpans_OK THEN [err |-> Err("NoSuchDevice"), io |-> log3]
        ELSE IF rlen > 0 THEN
            IF rd.err # "nil" THEN [err |-> Err(rd.err), io |-> log4]
            ELSE [err |-> NilErr, io |-> log4]
        ELSE [err |-> NilErr, io |-> log3]
writeThenRead_IgnoreStatus(w, rlen, hw, pw, st, rd) ==
    LET log1 == <<EvW(Header(Len(w), rlen), hw)>>
        log2 == Append(log1, EvW(w, pw))
        b == readByte(st)
        log3 == log2 \o b.io
        log4 == Append(log3, EvR(rlen, rd))
    IN  IF Len(w) > i2c_RnW_MAXWRITE THEN [err |-> Err("bounds"), io |-> <<>>]
        ELSE IF rlen > i2c_RnW_MAXREAD THEN [err |-> Err("bounds"), io |-> <<>>]
        ELSE IF ~hw THEN [err |-> NilErr, io |-> log1]
        ELSE IF ~pw THEN [err |-> Err("io"), io |-> log2]
        ELSE IF ~IsNil(b.err) THEN [err |-> b.err, io |-> log3]
        ELSE IF rlen > 0 THEN
            IF rd.err # "nil" THEN [err |-> Err(rd.err), io |-> log4]
            ELSE [err |-> NilErr, io |-> log4]
        ELSE [err |-> NilErr, io |-> log3]
writeThenRead(w, rlen, hw, pw, st, rd) ==
    LET log1 == <<EvW(Header(Len(w), rlen), hw)>>
        log2 == Append(log1, EvW(w, pw))
        b == readByte(st)
        log3 == log2 \o b.io
        log4 == Append(log3, EvR(rlen, rd))
    IN  IF Len(w) > i2c_RnW_MAXWRITE THEN [err |-> Err("bounds"), io |-> <<>>]
        ELSE IF rlen > i2c_RnW_MAXREAD THEN [err |-> Err("bounds"), io |-> <<>>]
        ELSE IF ~hw THEN [err |-> NilErr, io |-> log1]
        ELSE IF ~pw THEN [err |-> Err("io"), io |-> log2]
        ELSE IF ~IsNil(b.err) THEN [err |-> b.err, io |-> log3]
        ELSE IF b.val # bpans_OK THEN [err |-> Err("NoSuchDevice"), io |-> log3]
        ELSE IF rlen > 0 THEN
            IF rd.err # "nil" THEN [err |-> Err(rd.err), io |-> log4]
            ELSE [err |-> NilErr, io |-> log4]
        ELSE [err |-> NilErr, io |-> log3]

(* i2c.go Transact8x8: the two buffers handed to writeThenRead *)
(* (uint8(addr)<<1 is even, so OR-ing 1 adds 1)                            *)
WriteBuf(a) == <<((a.addr % 256) * 2) % 256, a.reg>> \o a.w
ReadBuf(a) == <<((a.addr * 2) % 256) + 1>>

(* i2c.go Transact8x8, up to the write part *)
CallTransact8x8 ==
    /\ handle
    /\ UNCHANGED handle
    /\ \E a \in TransactArgs :
        /\ Begin("Transact8x8", a)
        /\ IF mode # MODE_I2C
           THEN Return(Ret(S, notI2CMode, NoVal, <<>>))
           ELSE IF a.addrlen # 7
           THEN Return(Ret(S, Err("addrlen"), NoVal, <<>>))
           ELSE IF Len(a.w) > i2c_RnW_MAXWRITE - 1
           THEN Return(Ret(S, Err("bounds"), NoVal, <<>>))
           ELSE IF a.rlen > i2c_RnW_MAXREAD
           THEN Return(Ret(S, Err("bounds"), NoVal, <<>>))
           ELSE Goto("Transact8x8.write", NoVal, <<>>)

(* i2c.go Transact8x8: the write part of the transaction *)
TransactWrite ==
    /\ pc = "Transact8x8.write"
    /\ InCall
    /\ UNCHANGED <<handle, i>>
    /\ \E hfail \in BOOLEAN, pfail \in BOOLEAN, st \in Read1 :
        LET x == writeThenRead(WriteBuf(args), 0, ~hfail, ~pfail, st, Full(<<>>))
        IN  IF ~IsNil(x.err) THEN Return(Ret(S, x.err, NoVal, io \o x.io))
            ELSE Goto("Transact8x8.read", NoVal, io \o x.io)

(* i2c.go Transact8x8: the read part of the transaction *)
TransactRead ==
    /\ pc = "Transact8x8.read"
    /\ InCall
    /\ UNCHANGED <<handle, i>>
    /\ \E hfail \in BOOLEAN, pfail \in BOOLEAN, st \in Read1,
          rd \in BulkReads(args.rlen) :
        LET x == writeThenRead(ReadBuf(args), args.rlen, ~hfail, ~pfail, st, rd)
        IN  IF ~IsNil(x.err) THEN Return(Ret(S, x.err, NoVal, io \o x.io))
            ELSE Return(Ret(S, NilErr,
                            [NoVal EXCEPT !.nw = Len(args.w), !.nr = args.rlen],
                            io \o x.io))

-----------------------------------------------------------------------------
Next ==
    \/ CallOpen
    \/ OpenAttempt
    \/ CallClose
    \/ CloseEnter
    \/ CloseExit
    \/ CallEnterBitbangMode
    \/ CallEnterI2CMode
    \/ CallEnterNonStrictI2CMode
    \/ CallStart
    \/ CallStop
    \/ CallReadByte
    \/ ReadByteRead
    \/ ReadByteAck
    \/ CallWriteByte
    \/ WriteByteCmd
    \/ WriteByteData
    \/ CallTransact8x8
    \/ TransactWrite
    \/ TransactRead

Spec == Init /\ [][Next]_vars

-----------------------------------------------------------------------------
(* writeThenRead on its own: the method has no mode check and is called    *)
(* by Transact8x8 only, which never hands it a read buffer above the       *)
(* maximum.  Here it is applied directly, on the handle of a session in    *)
(* I2C mode, to write buffers and read lengths on both sides of its limits.*)
WTRWLens ==
    (0..MaxLen) \cup {255, 256, 300, i2c_RnW_MAXWRITE - 1,
                      i2c_RnW_MAXWRITE, i2c_RnW_MAXWRITE + 1}
WTRRLens ==
    (0..MaxLen) \cup {10, 255, 256, i2c_RnW_MAXREAD, i2c_RnW_MAXREAD + 1}

InitWTR ==
    /\ mode = MODE_I2C
    /\ modeversion = 1
    /\ handle = TRUE
    /\ pc = "writeThenRead"
    /\ op = "writeThenRead"
    /\ \E wl \in WTRWLens, rl \in WTRRLens :
        args = [NoArgs EXCEPT !.w = Payload(wl), !.rlen = rl]
    /\ pre = [mode |-> MODE_I2C, version |-> 1]
    /\ i = 0
    /\ err = NilErr
    /\ val = NoVal
    /\ io = <<>>
    /\ leftI2C = FALSE

(* i2c.go writeThenRead(args.w, r) with len(r) = args.rlen *)
ApplyWriteThenRead ==
    /\ pc = "writeThenRead"
    /\ InCall
    /\ UNCHANGED <<handle, i>>
    /\ \E hfail \in BOOLEAN, pfail \in BOOLEAN, st \in Read1,
          rd \in BulkReads(args.rlen) :
        LET x == writeThenRead(args.w, args.rlen, ~hfail, ~pfail, st, rd)
        IN  Return(Ret(S, x.err, NoVal, x.io))

NextWTR == ApplyWriteThenRead

SpecWTR == InitWTR /\ [][NextWTR]_vars

-----------------------------------------------------------------------------
(* Vocabulary of the properties *)
HandleOps == {"Start", "Stop", "ReadByte", "WriteByte", "Transact8x8"}
EnterI2COps == {"EnterI2CMode", "EnterNonStrictI2CMode"}
Done == pc = "idle"
Unchanged == mode = pre.mode /\ modeversion = pre.version
IsWriteOf(e, data) == e.k = "W" /\ e.data = data
IsProbeRead(e) == e.k = "R" /\ e.want = 5
IsDrainRead(e) == e.k = "R" /\ e.want = DrainSize
GotBBIO1(e) == IsProbeRead(e) /\ e.err = "nil" /\ e.data = BBIO \o <<Ch1>>

(* C1: a handle operation (Start, Stop, ReadByte, WriteByte, Transact8x8)  *)
(* called while the mode is not I2C, and EnterI2CMode called while the     *)
(* mode is not BitBang, returns at once with a ModeError, has made no      *)
(* transport call at all (so no write) and leaves mode and version as      *)
(* they were.                                                              *)
C1_WrongModeRejected ==
    ( \/ (op \in HandleOps /\ pre.mode # MODE_I2C)
      \/ (op \in EnterI2COps /\ pre.mode # MODE_BITBANG) )
    => Done /\ err = Err("ModeError") /\ io = <<>> /\ Unchanged

C1_Witness ==
    /\ Done /\ op = "Start" /\ pre.mode = MODE_BITBANG
    /\ err = Err("ModeError") /\ io = <<>>

(* C2: Open returns nil only after a validated BBIO1 response followed by  *)
(* a drain read that timed out, and then the session is BitBang, version   *)
(* 1; a drain read that ends without a timeout makes Open return an error. *)
C2_OpenSuccessMeansBitBang ==
    (Done /\ op = "Open") =>
        /\ IsNil(err) =>
            /\ Len(io) >= 2
            /\ IsDrainRead(io[Len(io)]) /\ io[Len(io)].err = "timeout"
            /\ \E j \in 1..Len(io) : GotBBIO1(io[j])
            /\ mode = MODE_BITBANG /\ modeversion = 1
        /\ (io # <<>> /\ IsDrainRead(io[Len(io)])
                /\ io[Len(io)].err # "timeout") => Failed(err)

(* C3: when the transport accepts every write and every SetReadParams and  *)
(* every 5-byte probe read times out, Open ends after exactly 20 writes of *)
(* the single byte 0x00 with the exhausted-retries error and the session   *)
(* as it was; while the loop runs, i counts the writes and stays below 20. *)
AllProbesTimedOut ==
    \A j \in 1..Len(io) :
        IF io[j].k = "R" THEN IsProbeRead(io[j]) /\ io[j].err = "timeout"
        ELSE io[j].err = "nil"

C3_OpenExhausted ==
    (op = "Open") =>
        /\ (pc = "Open.loop") =>
            i < MaxTries /\ Len(Writes(io)) = i /\ AllProbesTimedOut
        /\ (Done /\ AllProbesTimedOut) =>
            /\ err = Err("exhausted")
            /\ Len(Writes(io)) = 20
            /\ \A j \in 1..Len(io) : io[j].k = "W" => io[j].data = <<0>>
            /\ Unchanged

C3_Witness ==
    /\ Done /\ op = "Open" /\ err = Err("exhausted")
    /\ pre.mode = MODE_I2C /\ mode = MODE_I2C /\ Len(Writes(io)) = 20

(* C4: in Open, a complete 5-byte response other than BBIO1 is the last    *)
(* transport call of the call (no further zero byte, no drain read): Open  *)
(* has returned an error and mode and version are as before the call.      *)
C4_OpenBadResponseFatal ==
    (op = "Open") =>
        \A j \in 1..Len(io) :
            (IsProbeRead(io[j]) /\ io[j].err = "nil" /\ ~GotBBIO1(io[j])) =>
                j = Len(io) /\ Done /\ Failed(err) /\ Unchanged

C4_Witness ==
    /\ Done /\ op = "Open" /\ err = Err("badVersion")
    /\ Len(io) > 3 /\ io[Len(io)].data = BBIO \o <<50>>

(* C5 as stated: after EnterBitbangMode or EnterI2CMode returned an error, *)
(* the mode is Unknown and the version 0, whatever they were before.       *)
C5_FailedTransitionUnknown ==
    (Done /\ op \in {"EnterBitbangMode"} \cup EnterI2COps /\ Failed(err)) =>
        mode = MODE_UNKNOWN /\ modeversion = 0

(* C5 amended: after EnterBitbangMode or EnterI2CMode returned an error    *)
(* other than EnterI2CMode's ModeError (the rejection of a call made       *)
(* outside BitBang mode, which leaves the session untouched), the mode is  *)
(* Unknown and the version 0, whatever they were before.                   *)
C5_FailedTransitionUnknownAmended ==
    (Done /\ op \in {"EnterBitbangMode"} \cup EnterI2COps
          /\ Failed(err) /\ err # Err("ModeError")) =>
        mode = MODE_UNKNOWN /\ modeversion = 0

C5_Witness ==
    /\ Done /\ op = "EnterBitbangMode" /\ pre.mode = MODE_I2C
    /\ err = Err("badVersion") /\ mode = MODE_UNKNOWN /\ modeversion = 0

(* C6: a successful EnterI2CMode leaves mode I2C, version 1; a successful  *)
(* EnterBitbangMode leaves mode BitBang, version 1; after any transition   *)
(* attempt the mode is the transition's target or Unknown.                 *)
C6_TransitionCommits ==
    /\ (Done /\ op \in EnterI2COps) =>
        /\ IsNil(err) => mode = MODE_I2C /\ modeversion = 1
        /\ mode \in {MODE_I2C, MODE_UNKNOWN}
    /\ (Done /\ op = "EnterBitbangMode") =>
        /\ IsNil(err) => mode = MODE_BITBANG /\ modeversion = 1
        /\ mode \in {MODE_BITBANG, MODE_UNKNOWN}

(* C7: when the Write of the command byte fails in EnterBitbangMode or     *)
(* EnterI2CMode, the call returns an error and the mode is Unknown.        *)
C7_FailedWriteFails ==
    (Done /\ op \in {"EnterBitbangMode"} \cup EnterI2COps
          /\ io # <<>> /\ io[1].k = "W" /\ io[1].err # "nil") =>
        Failed(err) /\ mode = MODE_UNKNOWN

C9_UnknownIsSticky ==
    /\ []((pre.mode = MODE_UNKNOWN /\ op \notin {"Open", "none"}) =>
            Done /\ Failed(err) /\ io = <<>> /\ mode = MODE_UNKNOWN)
    /\ [][(mode = MODE_UNKNOWN /\ mode' # MODE_UNKNOWN) =>
            (op' = "Open" /\ pc' = "idle" /\ IsNil(err'))]_vars

C9_Witness ==
    /\ Done /\ op = "EnterBitbangMode" /\ pre.mode = MODE_UNKNOWN
    /\ err = Err("unknownMode") /\ mode = MODE_UNKNOWN

(* C10: once a successful EnterBitbangMode or Close has taken the probe    *)
(* out of I2C mode, every operation on the handle is rejected with the     *)
(* mode error and makes no transport call.                                 *)
C10_StaleHandleRejected ==
    (leftI2C /\ op \in HandleOps) =>
        Done /\ err = notI2CMode /\ io = <<>>

-----------------------------------------------------------------------------
(* Vocabulary of the I2C data-path properties *)
IsHeader(e) == e.k = "W" /\ Len(e.data) = 5 /\ e.data[1] = bpcmd_I2C_WnR
GotByte(e) == e.k = "R" /\ e.want = 1 /\ e.err = "nil" /\ e.n = 1
StatusOK(e) == GotByte(e) /\ e.data = <<1>>
WriteFailed(e) == e.k = "W" /\ e.err # "nil"
ReadFailed(e) == e.k = "R" /\ e.err # "nil"
BadStatus(e) == GotByte(e) /\ e.data # <<1>>
Decode16(hi, lo) == hi * 256 + lo

(* C11: Transact8x8 returns a nil error, with the counts (len(w), len(r)),  *)
(* only if both frames were written in full, both status bytes were 0x01   *)
(* and all len(r) bytes were read; a failure in either phase (a failed     *)
(* transport write of a frame header or payload, a failed read, a status   *)
(* byte other than 0x01) makes it return an error with counts (0, 0).      *)
C11_TransactAllOrNothing ==
    (Done /\ op = "Transact8x8") =>
        /\ IsNil(err) =>
            /\ val.nw = Len(args.w) /\ val.nr = args.rlen
            /\ Len(io) >= 6
            /\ io[1] = EvW(Header(Len(args.w) + 2, 0), TRUE)
            /\ io[2] = EvW(WriteBuf(args), TRUE)
            /\ StatusOK(io[3])
            /\ io[4] = EvW(Header(1, args.rlen), TRUE)
            /\ io[5] = EvW(ReadBuf(args), TRUE)
            /\ StatusOK(io[6])
            /\ args.rlen > 0 =>
                /\ Len(io) = 7 /\ io[7].k = "R" /\ io[7].err = "nil"
                /\ io[7].n = args.rlen
        /\ (\E j \in 1..Len(io) :
                \/ WriteFailed(io[j]) \/ ReadFailed(io[j])
                \/ j \in {3, 6} /\ BadStatus(io[j])) =>
            Failed(err) /\ val.nw = 0 /\ val.nr = 0

(* C12: Transact8x8 in I2C mode with a 7-bit address writes, in this       *)
(* order and nothing else: the header 0x08 with write length len(w)+2 and  *)
(* read length 0, the payload [addr<<1, reg, w...], and, only after the    *)
(* status byte of that frame was read as 0x01, the header with write       *)
(* length 1 and read length len(r) and the payload [(addr<<1)|1].          *)
C12_TransactFrames ==
    (op = "Transact8x8" /\ pre.mode = MODE_I2C /\ args.addrlen = 7) =>
        \A j \in 1..Len(io) : io[j].k = "W" =>
            \/ /\ j = 1
               /\ io[j].data = <<8, (Len(args.w) + 2) \div 256,
                                 (Len(args.w) + 2) % 256, 0, 0>>
            \/ /\ j = 2
               /\ io[j].data = <<(args.addr * 2) % 256, args.reg>> \o args.w
            \/ /\ j = 4 /\ StatusOK(io[3])
               /\ io[j].data = <<8, 0, 1, args.rlen \div 256, args.rlen % 256>>
            \/ /\ j = 5 /\ StatusOK(io[3])
               /\ io[j].data = <<((args.addr * 2) % 256) + 1>>

(* C13: Transact8x8 in I2C mode with a 7-bit address is rejected for its   *)
(* lengths, before any byte is sent, exactly when len(w) > 4095 or         *)
(* len(r) > 4096; every other call passes all length checks and sends the  *)
(* header of its write-phase frame.                                        *)
C13_TransactLengthLimits ==
    (op = "Transact8x8" /\ pre.mode = MODE_I2C /\ args.addrlen = 7) =>
        LET big == Len(args.w) > 4095 \/ args.rlen > 4096
            rejected == Done /\ err = Err("bounds") /\ io = <<>>
        IN  /\ big <=> rejected
            /\ ~big => \/ pc = "Transact8x8.write"
                       \/ io # <<>> /\ IsHeader(io[1])

(* C14: writeThenRead called with a write payload longer than 4096 bytes   *)
(* or a read buffer longer than 4096 bytes returns an error without any    *)
(* transport write; every frame header written declares a write length     *)
(* and a read length of at most 4096.                                      *)
C14_BulkBounds ==
    /\ (Done /\ op = "writeThenRead"
        /\ (Len(args.w) > 4096 \/ args.rlen > 4096)) =>
            Failed(err) /\ io = <<>>
    /\ \A j \in 1..Len(io) : IsHeader(io[j]) =>
            /\ Decode16(io[j].data[2], io[j].data[3]) <= 4096
            /\ Decode16(io[j].data[4], io[j].data[5]) <= 4096

C14_Witness ==
    /\ Done /\ op = "writeThenRead"
    /\ Len(args.w) <= 4096 /\ args.rlen > 4096
    /\ err = Err("bounds") /\ io = <<>>

(* C15: in writeThenRead a status byte other than 0x01 makes the call      *)
(* return the no-such-device error and no data byte is read after it; the  *)
(* data is read, as one read of exactly len(r) bytes, only when the status *)
(* byte was 0x01 and len(r) > 0.                                           *)
C15_StatusGatesData ==
    (Done /\ op = "writeThenRead") =>
        /\ (Len(io) >= 3 /\ BadStatus(io[3])) =>
            err = Err("NoSuchDevice") /\ Len(io) = 3
        /\ \A j \in 1..Len(io) : (io[j].k = "R" /\ j # 3) =>
            /\ j = 4 /\ Len(io) = 4
            /\ StatusOK(io[3])
            /\ args.rlen > 0 /\ io[j].want = args.rlen

C15_Witness ==
    /\ Done /\ op = "writeThenRead" /\ args.rlen > 0
    /\ Len(io) = 3 /\ BadStatus(io[3]) /\ err = Err("NoSuchDevice")

(* C16: WriteByte(b) in I2C mode writes 0x10 and reads one byte; only if   *)
(* that byte is 0x01 does it write b and read one acknowledgement byte;    *)
(* it succeeds exactly when the acknowledgement byte is 0, returns the     *)
(* received-NACK error when that byte is not 0, and never writes b after   *)
(* a reply to 0x10 other than 0x01.                                        *)
C16_WriteByteProtocol ==
    (op = "WriteByte" /\ pre.mode = MODE_I2C) =>
        /\ pc # "WriteByte.cmd" =>
            /\ Len(io) >= 2 /\ IsWriteOf(io[1], <<16>>)
            /\ io[2].k = "R" /\ io[2].want = 1
        /\ \A j \in 2..Len(io) : io[j].k = "W" =>
            j = 3 /\ StatusOK(io[2]) /\ io[j].data = <<args.b>>
        /\ Len(io) >= 3 => Len(io) = 4 /\ io[4].k = "R" /\ io[4].want = 1
        /\ Done =>
            /\ IsNil(err) <=>
                (Len(io) = 4 /\ GotByte(io[4]) /\ io[4].data = <<0>>)
            /\ (Len(io) = 4 /\ GotByte(io[4]) /\ io[4].data # <<0>>) =>
                err = Err("NACKReceived")

C16_Witness ==
    /\ Done /\ op = "WriteByte" /\ pre.mode = MODE_I2C /\ IsNil(err)
    /\ Len(io) = 4 /\ StatusOK(io[2]) /\ io[3] = EvW(<<args.b>>, TRUE)
    /\ GotByte(io[4]) /\ io[4].data = <<0>>

(* C17: ReadByte(ack) in I2C mode writes 0x04 and takes the byte read back *)
(* as the data; it then writes 0x06 if ack, 0x07 otherwise, and expects    *)
(* 0x01.  When the first exchange fails the call returns an error and      *)
(* writes no ACK or NACK command; when the second exchange fails the call  *)
(* returns an error together with the data byte already received.          *)
C17_ReadByteProtocol ==
    (op = "ReadByte" /\ pre.mode = MODE_I2C /\ pc # "ReadByte.read") =>
        /\ Len(io) >= 2 /\ IsWriteOf(io[1], <<4>>)
        /\ io[2].k = "R" /\ io[2].want = 1
        /\ (WriteFailed(io[1]) \/ ~GotByte(io[2])) =>
            Done /\ Failed(err) /\ Len(io) = 2
        /\ Len(io) >= 3 =>
            /\ io[3].k = "W" /\ io[3].data = <<IF args.ack THEN 6 ELSE 7>>
        /\ (Done /\ Len(io) >= 3) =>
            /\ Len(io) = 4 /\ io[4].k = "R" /\ io[4].want = 1
            /\ IsNil(err) <=> (~WriteFailed(io[3]) /\ StatusOK(io[4]))
            /\ ~IsNil(err) => Failed(err)
            /\ <<val.b>> = io[2].data

(* C18: Start in I2C mode writes exactly the byte 0x02 and Stop exactly    *)
(* the byte 0x03; each reads one response byte and succeeds exactly when   *)
(* that byte is 0x01; otherwise it returns an error that is not the mode   *)
(* error.                                                                  *)
C18_StartStop ==
    (Done /\ op \in {"Start", "Stop"} /\ pre.mode = MODE_I2C) =>
        /\ Len(io) = 2
        /\ io[1].k = "W" /\ io[1].data = <<IF op = "Start" THEN 2 ELSE 3>>
        /\ io[2].k = "R" /\ io[2].want = 1
        /\ IsNil(err) <=> StatusOK(io[2])
        /\ (BadStatus(io[2]) \/ ReadFailed(io[2])) =>
            Failed(err) /\ err.kind = "i2cerror" /\ err # notI2CMode

C18_Witness ==
    /\ Done /\ op = "Stop" /\ pre.mode = MODE_I2C
    /\ io[1] = EvW(<<3>>, TRUE) /\ BadStatus(io[2])
    /\ err = Wrap("i2cerror", Err("unexpected"))

(* C19: the frame header written for a write length wlen and a read length *)
(* rlen in 0..4096 is the 5 bytes [0x08, wlen div 256, wlen mod 256,       *)
(* rlen div 256, rlen mod 256]; decoding its two big-endian 16-bit fields  *)
(* gives back wlen and rlen; for wlen = 300 and rlen = 10 the header is    *)
(* 0x08 0x01 0x2C 0x00 0x0A.                                               *)
C19_HeaderEncoding ==
    (op = "writeThenRead" /\ io # <<>>) =>
        LET h == io[1].data
            wlen == Len(args.w)
            rlen == args.rlen
        IN  /\ io[1].k = "W"
            /\ wlen \in 0..4096 /\ rlen \in 0..4096
            /\ h = <<8, wlen \div 256, wlen % 256, rlen \div 256, rlen % 256>>
            /\ \A k \in 1..5 : h[k] \in 0..255
            /\ Decode16(h[2], h[3]) = wlen
            /\ Decode16(h[4], h[5]) = rlen
            /\ (wlen = 300 /\ rlen = 10) => h = <<8, 1, 44, 0, 10>>

C19_Witness ==
    /\ Done /\ op = "writeThenRead"
    /\ Len(args.w) = 300 /\ args.rlen = 10
    /\ io # <<>> /\ io[1] = EvW(<<8, 1, 44, 0, 10>>, TRUE)

(* C20: the one-byte exchange returns an error whenever the transport      *)
(* write fails, whenever the read returns an error and whenever the read   *)
(* delivers fewer than one byte, so Start, Stop and the exit exchange of   *)
(* Close return an error in each of these cases; none reports success      *)
(* after a failed write.                                                   *)
C20_ExchangeFailsWithTransport ==
    /\ (Done /\ op \in {"Start", "Stop"} /\ pre.mode = MODE_I2C) =>
        ((WriteFailed(io[1]) \/ ReadFailed(io[2]) \/ io[2].n < 1) =>
            Failed(err))
    /\ (Done /\ op = "Close") =>
        \A j \in 1..Len(io) : IsWriteOf(io[j], <<bpcmd_EXIT>>) =>
            ((WriteFailed(io[j]) \/ ReadFailed(io[j + 1]) \/ io[j + 1].n < 1) =>
                Failed(err))

(* A step of the call in progress that failed: io[j] is a transport call    *)
(* that failed or came short, or a response other than the expected one    *)
StepFailed(j) ==
    \/ WriteFailed(io[j])
    \/ ReadFailed(io[j])
    \/ io[j].k = "R" /\ io[j].n < io[j].want
    \/ op = "WriteByte" /\ j = 2 /\ BadStatus(io[j])
    \/ op = "Transact8x8" /\ j = 3 /\ BadStatus(io[j])
    \/ op = "Close" /\ IsProbeRead(io[j]) /\ ~GotBBIO1(io[j])

(* C21: outside the retry loop of Open, once a step of an operation has    *)
(* failed (a transport write or read that fails or comes short, a response *)
(* other than the expected one, a status byte other than 0x01) the         *)
(* operation writes nothing more to the transport; in particular           *)
(* Transact8x8 writes no read-phase frame after a failure in its write     *)
(* phase.                                                                  *)
C21_NothingAfterFailure ==
    (op \notin {"Open", "none"}) =>
        \A j \in 1..Len(io) : StepFailed(j) =>
            \A k \in (j + 1)..Len(io) : io[k].k # "W"

(* C22: no step of Start, Stop, ReadByte, WriteByte or Transact8x8, and    *)
(* not the exit exchange of Close, changes the mode or the version of the  *)
(* session, whatever its outcome (success, unexpected response, NACK,      *)
(* transport error).                                                       *)
C22_DataPathKeepsMode ==
    [][(op' \in HandleOps \/ pc = "Close.exit") =>
            (mode' = mode /\ modeversion' = modeversion)]_vars

C22_Witness ==
    /\ Done /\ op = "WriteByte" /\ pre.mode = MODE_I2C
    /\ err = Err("NACKReceived")
    /\ mode = MODE_I2C /\ modeversion = 1

(* C23: the recorded mode only ever is Closed, Unknown, BitBang or I2C; it *)
(* becomes BitBang only in the successful return of Open, becomes I2C only *)
(* in the successful return of EnterI2CMode called in BitBang mode, and    *)
(* never is Closed again once it has left Closed.                          *)
C23_ModeTransitions ==
    /\ [](mode \in {MODE_CLOSED, MODE_UNKNOWN, MODE_BITBANG, MODE_I2C})
    /\ [][(mode' = MODE_BITBANG /\ mode # MODE_BITBANG) =>
            (op' = "Open" /\ pc' = "idle" /\ IsNil(err'))]_vars
    /\ [][(mode' = MODE_I2C /\ mode # MODE_I2C) =>
            /\ op' \in EnterI2COps /\ pc' = "idle" /\ IsNil(err')
            /\ mode = MODE_BITBANG]_vars
    /\ [][mode # MODE_CLOSED => mode' # MODE_CLOSED]_vars

C23_Witness ==
    /\ Done /\ op \in EnterI2COps /\ IsNil(err)
    /\ pre.mode = MODE_BITBANG /\ mode = MODE_I2C

(* C24: in every state the version is 1 exactly when the mode is BitBang   *)
(* or I2C and 0 when it is Closed or Unknown; a step that changes the mode *)
(* leaves the version that belongs to the new mode.                        *)
C24_VersionFollowsMode ==
    /\ [](/\ modeversion = 1 <=> mode \in {MODE_BITBANG, MODE_I2C}
          /\ mode \in {MODE_CLOSED, MODE_UNKNOWN} => modeversion = 0)
    /\ [][mode' # mode =>
            modeversion' = IF mode' \in {MODE_BITBANG, MODE_I2C} THEN 1 ELSE 0]_vars

C24_Witness ==
    /\ Done /\ op \in EnterI2COps /\ Failed(err)
    /\ pre.mode = MODE_BITBANG /\ pre.version = 1
    /\ mode = MODE_UNKNOWN /\ modeversion = 0

====
